---- MODULE Spec2Model ----
(***************************************************************************)
(* Model of the task orchestration engine of agent-thinker:                *)
(*   src/agent-thinker/orchestrator.py  (Task, Orchestrator)               *)
(*   src/agent-thinker/retrieval.py     (RetrievalAgent)                   *)
(*   src/agent-thinker/synthesis.py     (SynthesisAgent)                   *)
(*   src/agent-thinker/validation.py    (ValidationAgent)                  *)
(*                                                                         *)
(* Task objects are Python objects with identity: the registry maps an id  *)
(* to an object and the queue holds objects, so the model keeps the        *)
(* objects in the sequence objs and refers to them by their index.         *)
(* Python strings that the code parses (json.loads) are records tagged     *)
(* with what they hold, so that parsing can fail as it does in the code.   *)
(*                                                                         *)
(* Specifications:                                                         *)
(*   Spec        a caller that makes up to MaxAdds add_task calls, with    *)
(*               new or already added Task objects, and calls              *)
(*               execute_tasks whenever it likes                           *)
(*   SpecSeeded  one seed Retrieval and one seed Synthesis task, the       *)
(*               generation collaborator always reporting incomplete       *)
(*   SpecRounds  a caller that reuses one orchestrator for two rounds      *)
(*   SpecChain   a chain of dependencies whose root fails, is missing or   *)
(*               completes                                                 *)
(*   SpecAcyclic seed tasks with registered, acyclic dependencies          *)
(*   SpecFollowUp  a seed Synthesis task and a seed Retrieval task whose   *)
(*               id may have the form of a generated id                    *)
(*   SpecAgent   one RetrievalAgent called directly                        *)
(*   SpecBatch   the same with retrieve_webpages, one cache assignment     *)
(*               per step                                                  *)
(*   SpecChunker chunk_tool_output called once on a bounded text           *)
(***************************************************************************)
EXTENDS Integers, Sequences, FiniteSets, TLC

VARIABLES
    objs,                 \* every Task object constructed so far (Task.__init__)
    tasks,                \* Orchestrator.tasks: task_id -> index of a Task object
    task_queue,           \* Orchestrator.task_queue: deque of Task objects
    synthesis_iteration,  \* Orchestrator.synthesis_iteration
    cache,                \* RetrievalAgent.cache: key -> cached value
    calls,                \* how often search / retrieve_webpage invoked each
                          \*   external collaborator with each argument
    returns,              \* what search / retrieve_webpage returned for each
                          \*   argument: the first time, and in later calls
    pc,                   \* "idle" (caller's turn), "loop", "exec", "replan"
    cur,                  \* the Task object execute_tasks popped (0: none)
    outcome,              \* how the caller's last call ended
    n_adds,               \* number of add_task calls the caller has made
    added,                \* the Task object of the caller's last add_task (0: none)
    try_raised,           \* whether the try body of the last execute_task raised
    batch,                \* the retrieve_webpages call in progress: its urls,
                          \*   the assignments to the cache its loop has still
                          \*   to make, and what it returned
    tool_output,          \* chunk_tool_output: content, a sequence of lines
    chunk_size,           \* chunk_tool_output: the token budget
    chunked_content       \* chunk_tool_output: what the call returned

\* The arguments and the return value of chunk_tool_output
chunker == <<tool_output, chunk_size, chunked_content>>

vars == <<objs, tasks, task_queue, synthesis_iteration, cache, calls,
          returns, pc, cur, outcome, n_adds, added, try_raised, batch,
          chunker>>

-----------------------------------------------------------------------------
(* Bounds of the model and constants of the program *)

MaxAdds == 2

MaxIterations == 8

Missing == "<missing>"

None == [kind |-> "none"]

-----------------------------------------------------------------------------
(* Task objects *)

Params(query, url, synthesis_task_id) ==
    [query |-> query, url |-> url, synthesis_task_id |-> synthesis_task_id]

NoParams == Params(Missing, Missing, Missing)

Task(task_id, task_type, params, dependencies) ==
    [task_id |-> task_id, task_type |-> task_type, params |-> params,
     dependencies |-> dependencies, status |-> "pending", result |-> None]

tasks_get(ts, dep_id) == IF dep_id \in DOMAIN ts THEN ts[dep_id] ELSE 0

Put(ts, k, v) == [i \in (DOMAIN ts) \cup {k} |-> IF i = k THEN v ELSE ts[i]]

-----------------------------------------------------------------------------
(* Python values the code passes around *)

\* f"[Error: {str(e)}]" as well as the text set by the JSONDecodeError handler
ErrorText(exc) == [kind |-> "error", exc |-> exc]

\* json.dumps(v): a string holding the JSON text of v
json_dumps(v) == [kind |-> "json", value |-> v]

\* A JSON object with the fields the orchestrator reads
JObj(status, has_additional_tasks, additional_tasks) ==
    [isdict |-> TRUE, status |-> status,
     has_additional_tasks |-> has_additional_tasks,
     additional_tasks |-> additional_tasks]

\* A JSON value that is not an object (a list, a number, a string, null)
JNonDict ==
    [isdict |-> FALSE, status |-> Missing,
     has_additional_tasks |-> FALSE, additional_tasks |-> <<>>]

\* json.loads that takes any text for an object with status complete
json_loads_any_text(s) ==
    IF s.kind = "json" THEN [exc |-> "", value |-> s.value]
    ELSE IF s.kind \in {"error", "report"}
         THEN [exc |-> "", value |-> [isdict |-> TRUE, status |-> "complete",
                                      has_additional_tasks |-> FALSE,
                                      additional_tasks |-> <<>>]]
         ELSE [exc |-> "TypeError", value |-> [isdict |-> FALSE, status |-> Missing,
                                               has_additional_tasks |-> FALSE,
                                               additional_tasks |-> <<>>]]

\* json.loads(s): the parsed value, or the exception it raises
json_loads(s) ==
    IF s.kind = "json" THEN [exc |-> "", value |-> s.value]
    ELSE IF s.kind \in {"error", "report"}
         THEN [exc |-> "JSONDecodeError", value |-> JNonDict]
         ELSE [exc |-> "TypeError", value |-> JNonDict]

\* One entry of additional_tasks
Entry(isdict, tool, has_q, q, has_urls, urls) ==
    [isdict |-> isdict, tool |-> tool, has_q |-> has_q, q |-> q,
     has_urls |-> has_urls, urls |-> urls]

-----------------------------------------------------------------------------
(* RetrievalAgent *)

SearchOutcomes == {"json", "raise"}

ScrapeOutcomes == {"markdown", "empty_markdown", "no_data", "raise"}

CacheValue(text, key) == [text |-> text, of |-> key]

\* No collaborator has been invoked; no call has returned
NoCalls == [k \in {} |-> 0]

NoReturns == [k \in {} |-> [first |-> CacheValue("", ""), later |-> {}]]

\* One more invocation of the collaborator `tool` with argument arg
Called(cs, tool, arg) ==
    Put(cs, <<tool, arg>>,
        IF <<tool, arg>> \in DOMAIN cs THEN cs[<<tool, arg>>] + 1 ELSE 1)

\* The agent's `method` has returned value for argument arg
Returned(rs, method, arg, value) ==
    IF <<method, arg>> \in DOMAIN rs
    THEN [rs EXCEPT ![<<method, arg>>].later = @ \cup {value}]
    ELSE Put(rs, <<method, arg>>, [first |-> value, later |-> {}])

\* search without its except clause: the collaborator's exception leaves it
search_reraising(c, query, collab) ==
    IF query \in DOMAIN c
    THEN [cache |-> c, value |-> c[query], called |-> FALSE, exc |-> ""]
    ELSE IF collab = "raise"
    THEN [cache |-> c, value |-> CacheValue("", ""), called |-> TRUE,
          exc |-> "Exception"]
    ELSE [cache |-> Put(c, query, CacheValue("results", query)),
          value |-> CacheValue("results", query), called |-> TRUE, exc |-> ""]

\* google_search_call(query) answered `collab`; exc is the exception that
\* leaves search, "" when it returns
search(c, query, collab) ==
    IF query \in DOMAIN c
    THEN [cache |-> c, value |-> c[query], called |-> FALSE, exc |-> ""]
    ELSE LET results == IF collab = "raise"
                        THEN CacheValue("error_result", query)
                        ELSE CacheValue("results", query)
         IN [cache |-> Put(c, query, results), value |-> results,
             called |-> TRUE, exc |-> ""]

\* retrieve_webpage that does not store the placeholder of a failed scrape
retrieve_webpage_forgetting_errors(c, url, collab) ==
    IF url \in DOMAIN c
    THEN [cache |-> c, value |-> c[url], called |-> FALSE, exc |-> ""]
    ELSE IF collab = "raise"
    THEN [cache |-> c, value |-> CacheValue("error_retrieving", url),
          called |-> TRUE, exc |-> ""]
    ELSE [cache |-> Put(c, url, CacheValue("markdown", url)),
          value |-> CacheValue("markdown", url), called |-> TRUE, exc |-> ""]

\* scrape_urls_call([url]) answered `collab`; exc is the exception that
\* leaves retrieve_webpage, "" when it returns
retrieve_webpage(c, url, collab) ==
    IF url \in DOMAIN c
    THEN [cache |-> c, value |-> c[url], called |-> FALSE, exc |-> ""]
    ELSE LET text ==
                 CASE collab = "markdown"       -> "markdown"
                   [] collab = "empty_markdown" -> "no_data_found"
                   [] collab = "no_data"        -> "no_content_retrieved"
                   [] OTHER                     -> "error_retrieving"
         IN [cache |-> Put(c, url, CacheValue(text, url)),
             value |-> CacheValue(text, url), called |-> TRUE, exc |-> ""]

\* One assignment self.cache[url] = content
Assignment(url, content) == [url |-> url, content |-> content]

\* No retrieve_webpages call has been made
NoBatch == [urls |-> <<>>, stores |-> <<>>, results |-> <<>>, at |-> "none"]

\* to_fetch = [u for u in urls if u not in self.cache]
to_fetch(c, urls) == SelectSeq(urls, LAMBDA u : u \notin DOMAIN c)

\* What one entry of response["data"] may be: an object with markdown, an
\* object without, or a value that has no get method
DataEntries == {"markdown", "empty_markdown", "not_a_dict"}

\* What scrape_urls_call(to_fetch) may answer for n URLs: it raises, or it
\* returns a data list of the same or of another length
BatchResponses(n) ==
    { [raises |-> TRUE, data |-> <<>>] }
    \cup { [raises |-> FALSE, data |-> d] :
             d \in UNION { [1..k -> DataEntries] : k \in {0, n} } }

\* except Exception: for url in to_fetch: the error placeholder for each
ErrorStores(fetch) ==
    [i \in 1..Len(fetch) |->
        Assignment(fetch[i], CacheValue("error_retrieving", fetch[i]))]

\* for url in to_fetch, in the branch of the length mismatch
MismatchStores(fetch) ==
    [i \in 1..Len(fetch) |->
        Assignment(fetch[i], CacheValue("no_content_retrieved", fetch[i]))]

\* for i, url in enumerate(to_fetch), from index i on: an entry without a
\* get method raises, and the except clause stores the error placeholders
RECURSIVE LoopStores(_, _, _)
LoopStores(fetch, data, i) ==
    IF i > Len(fetch) THEN <<>>
    ELSE IF data[i] = "not_a_dict" THEN ErrorStores(fetch)
    ELSE << Assignment(fetch[i],
                IF data[i] = "markdown" THEN CacheValue("markdown", fetch[i])
                ELSE CacheValue("no_data_found", fetch[i])) >>
         \o LoopStores(fetch, data, i + 1)

\* The assignments to the cache that retrieve_webpages makes, in their order
batch_stores(fetch, response) ==
    IF fetch = <<>> THEN <<>>
    ELSE IF response.raises THEN ErrorStores(fetch)
    ELSE IF Len(response.data) = Len(fetch) THEN LoopStores(fetch, response.data, 1)
    ELSE MismatchStores(fetch)

\* results: for url in urls, what the cache holds for it
batch_results(c, urls) ==
    [i \in 1..Len(urls) |->
        IF urls[i] \in DOMAIN c THEN c[urls[i]]
        ELSE CacheValue("no_content_retrieved", urls[i])]

-----------------------------------------------------------------------------
(* SynthesisAgent *)

\* What client.chat.completions.create does: it raises, or returns a message
\* whose content is some text, JSON or not
ApiRaises == [raises |-> TRUE, valid |-> FALSE, value |-> JNonDict]

ApiContent(valid, value) == [raises |-> FALSE, valid |-> valid, value |-> value]

error_response == JObj("complete", TRUE, <<>>)

synthesize(query, retrieval_results, iteration, api) ==
    IF api.raises \/ ~api.valid
    THEN json_dumps(error_response)
    ELSE json_dumps(api.value)

-----------------------------------------------------------------------------
(* ValidationAgent *)

ValidateOutcomes == {"report", "raise"}

validate(summary, sources, v) ==
    IF v = "raise" THEN [exc |-> "Exception", result |-> None]
    ELSE [exc |-> "", result |-> [kind |-> "report"]]

-----------------------------------------------------------------------------
(* ToolCallAggregator.chunk_tool_output *)

\* chunk_size: int = 2000
DefaultChunkSize == 2000

\* chunk_tool_output has not been called
NotChunking ==
    /\ tool_output = <<>>
    /\ chunk_size = DefaultChunkSize
    /\ chunked_content = <<>>

\* The text is a sequence of lines (content.splitlines()) and a line is a
\* sequence of words (line.split()). A word is known by its token count
\* len(enc.encode(word)), its length in characters, and whether it starts
\* with "#", "[" or "!"
Word(tokens, chars, marker) ==
    [tokens |-> tokens, chars |-> chars, marker |-> marker]

\* The tokenizer: the token count of a text is that of its words, a space
\* going with the word that follows it, plus one token per newline
RECURSIVE LineTokens(_)
LineTokens(line) ==
    IF line = <<>> THEN 0 ELSE Head(line).tokens + LineTokens(Tail(line))

\* len(enc.encode("\n".join(lines)))
RECURSIVE encode_len(_)
encode_len(lines) ==
    IF lines = <<>> THEN 0
    ELSE IF Len(lines) = 1 THEN LineTokens(lines[1])
    ELSE LineTokens(Head(lines)) + 1 + encode_len(Tail(lines))

\* len(enc.encode(word + " ")): the trailing space is a token of its own
word_tokens(word) == word.tokens + 1

\* len(line)
RECURSIVE LineChars(_)
LineChars(line) ==
    IF line = <<>> THEN 0
    ELSE IF Len(line) = 1 THEN line[1].chars
    ELSE Head(line).chars + 1 + LineChars(Tail(line))

\* len("".join(current_section))
RECURSIVE JoinedChars(_)
JoinedChars(current_section) ==
    IF current_section = <<>> THEN 0
    ELSE LineChars(Head(current_section)) + JoinedChars(Tail(current_section))

SectionThreshold == 500

\* line.startswith("#") or line.startswith("[") or line.startswith("!")
starts_boundary(line) == line # <<>> /\ Head(line).marker

\* The first loop: the sections of the text, each a sequence of lines
RECURSIVE Segment(_, _, _)
Segment(lines, sections, current_section) ==
    IF lines = <<>>
    THEN IF current_section # <<>> THEN Append(sections, current_section)
         ELSE sections
    ELSE LET line == Head(lines)
             boundary == \/ starts_boundary(line)
                         \/ JoinedChars(current_section) > SectionThreshold
         IN  IF boundary /\ current_section # <<>>
             THEN Segment(Tail(lines), Append(sections, current_section),
                          <<line>>)
             ELSE Segment(Tail(lines), sections,
                          Append(current_section, line))

\* "\n".join(current_chunk): a chunk packed from whole sections
PackedChunk(current_chunk) == [packed |-> TRUE, sections |-> current_chunk]

\* " ".join(temp_chunk): a chunk of words of an oversized section, one line
SubChunk(temp_chunk) == [packed |-> FALSE, sections |-> << << temp_chunk >> >>]

\* section.split()
RECURSIVE SectionWords(_)
SectionWords(section) ==
    IF section = <<>> THEN <<>>
    ELSE Head(section) \o SectionWords(Tail(section))

\* The loop over the words of an oversized section
RECURSIVE Repack(_, _, _, _, _)
Repack(words, chunks, temp_chunk, temp_tokens, size) ==
    IF words = <<>>
    THEN IF temp_chunk # <<>> THEN Append(chunks, SubChunk(temp_chunk))
         ELSE chunks
    ELSE LET word == Head(words)
         IN  IF temp_tokens + word_tokens(word) > size
             THEN Repack(Tail(words),
                         IF temp_chunk # <<>>
                         THEN Append(chunks, SubChunk(temp_chunk))
                         ELSE chunks,
                         <<word>>, word_tokens(word), size)
             ELSE Repack(Tail(words), chunks, Append(temp_chunk, word),
                         temp_tokens + word_tokens(word), size)

\* The test of the packing loop with >= for >
reaches_budget(current_chunk_tokens, section_token_count, size) ==
    current_chunk_tokens + section_token_count >= size

\* current_chunk_tokens + section_token_count > chunk_size
exceeds_budget(current_chunk_tokens, section_token_count, size) ==
    current_chunk_tokens + section_token_count > size

\* The second loop: the chunks, in the order in which they are appended
RECURSIVE Pack(_, _, _, _, _)
Pack(sections, chunks, current_chunk, current_chunk_tokens, size) ==
    IF sections = <<>>
    THEN IF current_chunk # <<>>
         THEN Append(chunks, PackedChunk(current_chunk))
         ELSE chunks
    ELSE LET section == Head(sections)
             section_token_count == encode_len(section)
         IN  IF section_token_count > size
             THEN Pack(Tail(sections),
                       Repack(SectionWords(section), chunks, <<>>, 0, size),
                       current_chunk, current_chunk_tokens, size)
             ELSE IF exceeds_budget(current_chunk_tokens,
                                    section_token_count, size)
             THEN Pack(Tail(sections),
                       Append(chunks, PackedChunk(current_chunk)),
                       <<section>>, section_token_count, size)
             ELSE Pack(Tail(sections), chunks,
                       Append(current_chunk, section),
                       current_chunk_tokens + section_token_count, size)

\* chunk_tool_output(content, chunk_size): the chunks between their markers
\* <start chunk i> and <end chunk i>
chunk_tool_output(lines, size) ==
    LET chunks == Pack(Segment(lines, <<>>, <<>>), <<>>, <<>>, 0, size)
    IN  [i \in 1..Len(chunks) |-> [index |-> i, chunk |-> chunks[i]]]

-----------------------------------------------------------------------------
(* Orchestrator *)

\* The part of the orchestrator's state that add_task works on
Store == [objs |-> objs, tasks |-> tasks, task_queue |-> task_queue]

\* Task(...): a new object, known by its index in objs
NewTask(st, t) == [st EXCEPT !.objs = Append(@, t)]

add_task(st, task) ==
    [st EXCEPT !.task_queue = Append(@, task),
               !.tasks = Put(@, st.objs[task].task_id, task)]

\* self.add_task(Task(...))
add_new_task(st, t) == add_task(NewTask(st, t), Len(st.objs) + 1)

\* can_execute that takes an unregistered dependency for a met one
can_execute_skipping_unregistered(task) ==
    \A dep_id \in objs[task].dependencies :
        LET dep_task == tasks_get(tasks, dep_id)
        IN  dep_task = 0 \/ objs[dep_task].status = "completed"

\* can_execute that takes a failed dependency for a met one
can_execute_once_finished(task) ==
    \A dep_id \in objs[task].dependencies :
        LET dep_task == tasks_get(tasks, dep_id)
        IN  ~(dep_task = 0 \/ objs[dep_task].status \notin {"completed", "failed"})

can_execute(task) ==
    \A dep_id \in objs[task].dependencies :
        LET dep_task == tasks_get(tasks, dep_id)
        IN  ~(dep_task = 0 \/ objs[dep_task].status # "completed")

\* except ValueError as e: only the errors execute_task raises itself
CatchesValueErrorOnly(exc) == exc = "ValueError"

\* except Exception as e: every exception the try body can raise is caught
Catches(exc) == TRUE

\* The end of execute_task, given what its try body did, and the test that
\* execute_tasks makes on the task right after it
Finish(r) ==
    /\ try_raised' = (r.exc # "")
    /\ IF r.exc = ""
       THEN /\ objs' = [objs EXCEPT ![cur].result = r.result,
                                    ![cur].status = "completed"]
            /\ pc' = IF objs[cur].task_type = "synthesis" THEN "replan" ELSE "loop"
            /\ UNCHANGED outcome
       ELSE IF Catches(r.exc)
       THEN /\ objs' = [objs EXCEPT ![cur].result = ErrorText(r.exc),
                                    ![cur].status = "failed"]
            /\ pc' = "loop"
            /\ UNCHANGED outcome
       ELSE /\ pc' = "idle"
            /\ outcome' = "raised"
            /\ UNCHANGED objs
    /\ UNCHANGED <<tasks, task_queue, cur, n_adds, added>>

\* execute_task, retrieval branch
ExecuteRetrieval ==
    /\ pc = "exec"
    /\ objs[cur].task_type = "retrieval"
    /\ \E collab \in SearchOutcomes \cup ScrapeOutcomes :
        LET p == objs[cur].params
            a == IF p.query # Missing THEN search(cache, p.query, collab)
                 ELSE retrieve_webpage(cache, p.url, collab)
            r == IF p.query = Missing /\ p.url = Missing
                 THEN [exc |-> "ValueError", result |-> None]
                 ELSE IF a.exc # ""
                 THEN [exc |-> a.exc, result |-> None]
                 ELSE IF p.query # Missing
                 THEN [exc |-> "",
                       result |-> [kind |-> "search", query |-> p.query,
                                   results |-> a.value]]
                 ELSE [exc |-> "",
                       result |-> [kind |-> "scrape", url |-> p.url,
                                   content |-> a.value]]
            tool == IF p.query # Missing THEN "google_search_call"
                    ELSE "scrape_urls_call"
            method == IF p.query # Missing THEN "search"
                      ELSE "retrieve_webpage"
            arg == IF p.query # Missing THEN p.query ELSE p.url
            agent_called == p.query # Missing \/ p.url # Missing
        IN  /\ IF p.query # Missing THEN collab \in SearchOutcomes
               ELSE IF p.url # Missing THEN collab \in ScrapeOutcomes
               ELSE collab = "raise"
            /\ cache' = IF agent_called THEN a.cache ELSE cache
            /\ calls' = IF agent_called /\ a.called
                        THEN Called(calls, tool, arg) ELSE calls
            /\ returns' = IF agent_called /\ a.exc = ""
                          THEN Returned(returns, method, arg, a.value)
                          ELSE returns
            /\ Finish(r)
    /\ UNCHANGED <<synthesis_iteration, batch, chunker>>

\* The additional_tasks of an incomplete synthesis: a search, a scrape of two
\* URLs, an entry naming another tool and an entry that is not an object
RichTasks ==
    << Entry(TRUE, "google_search", TRUE, "y", FALSE, <<>>),
       Entry(TRUE, "scrape_urls", FALSE, Missing, TRUE, <<"u", "u">>),
       Entry(TRUE, "calculator", FALSE, Missing, FALSE, <<>>),
       Entry(FALSE, Missing, FALSE, Missing, FALSE, <<>>) >>

\* What the generation collaborator may answer
ApiOutcomes ==
    { ApiRaises,
      ApiContent(FALSE, JNonDict),
      ApiContent(TRUE, JNonDict),
      ApiContent(TRUE, JObj(Missing, FALSE, <<>>)),
      ApiContent(TRUE, JObj("complete", FALSE, <<>>)),
      ApiContent(TRUE, JObj("complete", TRUE, RichTasks)),
      ApiContent(TRUE, JObj("incomplete", TRUE, RichTasks)) }

\* The increment forgotten
next_iteration_forgotten(iteration) == iteration

\* self.synthesis_iteration += 1
next_iteration(iteration) == iteration + 1

\* The results of the dependencies of task that are completed
completed_results(task) ==
    { objs[tasks[dep_id]].result :
        dep_id \in { d \in objs[task].dependencies :
                       objs[tasks[d]].status = "completed" } }

\* execute_task, synthesis branch, the collaborator answering from Apis
ExecuteSynthesisWith(Apis) ==
    /\ pc = "exec"
    /\ objs[cur].task_type = "synthesis"
    /\ synthesis_iteration' = next_iteration(synthesis_iteration)
    /\ \E api \in Apis :
        LET p == objs[cur].params
            retrieval_results == completed_results(cur)
            r == IF p.query = Missing
                 THEN [exc |-> "KeyError", result |-> None]
                 ELSE [exc |-> "",
                       result |-> synthesize(p.query, retrieval_results,
                                             synthesis_iteration', api)]
        IN  /\ p.query = Missing => api = ApiRaises
            /\ Finish(r)
    /\ UNCHANGED <<cache, calls, returns, batch, chunker>>

ExecuteSynthesis == ExecuteSynthesisWith(ApiOutcomes)

\* execute_task, validation branch
ExecuteValidation ==
    /\ pc = "exec"
    /\ objs[cur].task_type = "validation"
    /\ \E v \in ValidateOutcomes :
        LET id == objs[cur].params.synthesis_task_id
            known == id # Missing /\ id \in DOMAIN tasks
            synthesis_result == json_loads(objs[tasks[id]].result)
            r == IF ~known THEN [exc |-> "KeyError", result |-> None]
                 ELSE IF synthesis_result.exc # ""
                 THEN [exc |-> synthesis_result.exc, result |-> None]
                 ELSE IF ~synthesis_result.value.isdict
                 THEN [exc |-> "AttributeError", result |-> None]
                 ELSE validate("summary", "", v)
        IN  /\ (~known \/ synthesis_result.exc # ""
                  \/ ~synthesis_result.value.isdict) => v = "raise"
            /\ Finish(r)
    /\ UNCHANGED <<cache, calls, returns, batch, chunker, synthesis_iteration>>

\* execute_task on a task type that has no agent
ExecuteNoAgent ==
    /\ pc = "exec"
    /\ objs[cur].task_type \notin {"retrieval", "synthesis", "validation"}
    /\ Finish([exc |-> "ValueError", result |-> None])
    /\ UNCHANGED <<cache, calls, returns, batch, chunker, synthesis_iteration>>

\* for url in parameters["urls"]: one retrieval task per URL
RECURSIVE SpawnUrls(_, _)
SpawnUrls(st, urls) ==
    IF urls = <<>> THEN st
    ELSE SpawnUrls(
            add_new_task(st,
                Task("retrieval_url_" \o ToString(Cardinality(DOMAIN st.tasks)),
                     "retrieval", Params(Missing, Head(urls), Missing), {})),
            Tail(urls))

\* The body of the loop over additional_tasks, for one entry
SpawnEntry(st, additional_task) ==
    IF ~additional_task.isdict THEN st
    ELSE IF additional_task.tool = "scrape_urls" /\ additional_task.has_urls
    THEN SpawnUrls(st, additional_task.urls)
    ELSE IF additional_task.tool = "google_search" /\ additional_task.has_q
    THEN add_new_task(st,
            Task("retrieval_search_" \o ToString(Cardinality(DOMAIN st.tasks)),
                 "retrieval", Params(additional_task.q, Missing, Missing), {}))
    ELSE st

RECURSIVE SpawnAll(_, _)
SpawnAll(st, additional_tasks) ==
    IF additional_tasks = <<>> THEN st
    ELSE SpawnAll(SpawnEntry(st, Head(additional_tasks)), Tail(additional_tasks))

\* The list comprehension without its filter on task_type
all_task_ids(st) == DOMAIN st.tasks

\* The dependencies of the follow-up synthesis task
all_retrieval_ids(st) ==
    { id \in DOMAIN st.tasks : st.objs[st.tasks[id]].task_type = "retrieval" }

\* Queue new synthesis task
SpawnSynthesis(st, task) ==
    add_new_task(st,
        Task("synthesis_" \o ToString(Cardinality(DOMAIN st.tasks)),
             "synthesis", Params(st.objs[task].params.query, Missing, Missing),
             all_retrieval_ids(st)))

\* The tasks an incomplete synthesis output adds
Replanned(st, task, synthesis_output) ==
    SpawnSynthesis(
        IF synthesis_output.has_additional_tasks
        THEN SpawnAll(st, synthesis_output.additional_tasks)
        ELSE st,
        task)

\* The test on the status left out: any result asks for more work
StatusIgnored(synthesis_output) == TRUE

\* synthesis_output["status"] == "incomplete"
StatusIncomplete(synthesis_output) == synthesis_output.status = "incomplete"

\* The cap test with a cap of 7
BelowSeven(iteration) == iteration < MaxIterations - 1

\* The cap test with <= for <
BelowOrAtCap(iteration) == iteration <= MaxIterations

\* The cap test of the replanning step
BelowCap(iteration) == iteration < MaxIterations

\* execute_tasks: handle synthesis task result
Replan ==
    /\ pc = "replan"
    /\ LET parsed == json_loads(objs[cur].result)
           synthesis_output == parsed.value
       IN  IF parsed.exc = "JSONDecodeError"
           THEN /\ objs' = [objs EXCEPT
                              ![cur].status = "failed",
                              ![cur].result = ErrorText("Invalid synthesis output format")]
                /\ pc' = "loop"
                /\ UNCHANGED <<tasks, task_queue, outcome>>
           ELSE IF parsed.exc # "" \/ ~synthesis_output.isdict
                   \/ synthesis_output.status = Missing
           THEN \* TypeError or KeyError leaves execute_tasks
                /\ pc' = "idle"
                /\ outcome' = "raised"
                /\ UNCHANGED <<objs, tasks, task_queue>>
           ELSE IF StatusIncomplete(synthesis_output)
                   /\ BelowCap(synthesis_iteration)
           THEN LET st == Replanned(Store, cur, synthesis_output)
                IN  /\ objs' = st.objs
                    /\ tasks' = st.tasks
                    /\ task_queue' = st.task_queue
                    /\ pc' = "loop"
                    /\ UNCHANGED outcome
           ELSE /\ pc' = "loop"
                /\ UNCHANGED <<objs, tasks, task_queue, outcome>>
    /\ UNCHANGED <<synthesis_iteration, cache, calls, returns, batch, chunker,
                   cur, n_adds, added, try_raised>>

\* The loop test taking a queue of one task for an empty one
queue_longer_than_one(q) == Len(q) > 1

\* while self.task_queue: a deque is true when it holds a task
queue_nonempty(q) == q # <<>>

\* execute_tasks: pop a task whose dependencies are met; execute_task sets it
\* in_progress
Dispatch ==
    /\ pc = "loop"
    /\ queue_nonempty(task_queue)
    /\ LET task == Head(task_queue)
       IN  /\ can_execute(task)
           /\ cur' = task
           /\ task_queue' = Tail(task_queue)
           /\ objs' = [objs EXCEPT ![task].status = "in_progress"]
    /\ pc' = "exec"
    /\ try_raised' = FALSE
    /\ UNCHANGED <<tasks, synthesis_iteration, cache, calls, returns, batch,
                   chunker, outcome, n_adds, added>>

\* execute_tasks: re-add to the end of the queue if dependencies are not met
Requeue ==
    /\ pc = "loop"
    /\ queue_nonempty(task_queue)
    /\ ~can_execute(Head(task_queue))
    /\ task_queue' = Append(Tail(task_queue), Head(task_queue))
    /\ UNCHANGED <<objs, tasks, synthesis_iteration, cache, calls, returns,
                   batch, chunker, pc, cur, outcome, n_adds, added,
                   try_raised>>

\* execute_tasks: the queue is empty
Return ==
    /\ pc = "loop"
    /\ ~queue_nonempty(task_queue)
    /\ pc' = "idle"
    /\ outcome' = "returned"
    /\ UNCHANGED <<objs, tasks, task_queue, synthesis_iteration, cache, calls,
                   returns, batch, chunker, cur, n_adds, added, try_raised>>

-----------------------------------------------------------------------------
(* The caller *)

TaskIds == {"r", "s", "retrieval_url_3"}

\* What the caller's tasks are: task_type, params, dependencies
TaskKinds ==
    { <<"retrieval", Params("x", Missing, Missing), {}>>,
      <<"retrieval", NoParams, {}>>,
      <<"synthesis", Params("x", Missing, Missing), {}>>,
      <<"synthesis", Params("x", Missing, Missing), {"r"}>>,
      <<"synthesis", NoParams, {}>>,
      <<"validation", Params(Missing, Missing, "s"), {}>>,
      <<"calculation", NoParams, {"r"}>> }

\* The tasks the caller may construct
CallerTasks == { Task(id, k[1], k[2], k[3]) : id \in TaskIds, k \in TaskKinds }

\* The caller adds tasks while it has made fewer than MaxAdds add_task calls
\* and fewer than MaxAdds Task objects exist
CallerMayAdd == pc = "idle" /\ n_adds < MaxAdds /\ Len(objs) < MaxAdds

\* orchestrator.add_task(Task(...))
CallerAddTask ==
    /\ CallerMayAdd
    /\ \E t \in CallerTasks :
        LET st == add_new_task(Store, t)
        IN  /\ objs' = st.objs
            /\ tasks' = st.tasks
            /\ task_queue' = st.task_queue
            /\ added' = Len(st.objs)
    /\ n_adds' = n_adds + 1
    /\ outcome' = "added"
    /\ UNCHANGED <<synthesis_iteration, cache, calls, returns, batch, chunker,
                   pc, cur, try_raised>>

\* orchestrator.add_task(t) with a Task object that was added before
CallerAddTaskAgain ==
    /\ CallerMayAdd
    /\ \E task \in DOMAIN objs :
        LET st == add_task(Store, task)
        IN  /\ tasks' = st.tasks
            /\ task_queue' = st.task_queue
            /\ added' = task
    /\ n_adds' = n_adds + 1
    /\ outcome' = "added"
    /\ UNCHANGED <<objs, synthesis_iteration, cache, calls, returns, batch,
                   chunker, pc, cur, try_raised>>

\* orchestrator.execute_tasks()
CallerExecuteTasks ==
    /\ pc = "idle"
    /\ pc' = "loop"
    /\ outcome' = "running"
    /\ added' = 0
    /\ UNCHANGED <<objs, tasks, task_queue, synthesis_iteration, cache, calls,
                   returns, batch, chunker, cur, n_adds, try_raised>>

-----------------------------------------------------------------------------

Init ==
    /\ objs = <<>>
    /\ tasks = [id \in {} |-> 0]
    /\ task_queue = <<>>
    /\ synthesis_iteration = 0
    /\ cache = [k \in {} |-> CacheValue("", "")]
    /\ calls = NoCalls
    /\ returns = NoReturns
    /\ batch = NoBatch
    /\ NotChunking
    /\ pc = "idle"
    /\ cur = 0
    /\ outcome = "none"
    /\ n_adds = 0
    /\ added = 0
    /\ try_raised = FALSE

Next ==
    \/ CallerAddTask
    \/ CallerAddTaskAgain
    \/ CallerExecuteTasks
    \/ Dispatch
    \/ Requeue
    \/ Return
    \/ ExecuteRetrieval
    \/ ExecuteSynthesis
    \/ ExecuteValidation
    \/ ExecuteNoAgent
    \/ Replan

Spec == Init /\ [][Next]_vars

-----------------------------------------------------------------------------
(* The run of section 8: a seed Retrieval task, a seed Synthesis task that   *)
(* depends on it, and a collaborator that always reports incomplete with one *)
(* google_search additional task                                             *)

EmptyStore == [objs |-> <<>>, tasks |-> [id \in {} |-> 0], task_queue |-> <<>>]

SeedRetrievals ==
    { Task("r", "retrieval", Params("x", Missing, Missing), {}),
      Task("r", "retrieval", Params(Missing, "w", Missing), {}) }

SeedSynthesis == Task("s", "synthesis", Params("x", Missing, Missing), {"r"})

IncompleteOneSearch ==
    ApiContent(TRUE, JObj("incomplete", TRUE,
        << Entry(TRUE, "google_search", TRUE, "y", FALSE, <<>>) >>))

\* The state after the caller's two add_task calls, in either order
InitSeeded ==
    /\ \E r \in SeedRetrievals, first \in BOOLEAN :
        LET st == IF first
                  THEN add_new_task(add_new_task(EmptyStore, r), SeedSynthesis)
                  ELSE add_new_task(add_new_task(EmptyStore, SeedSynthesis), r)
        IN  /\ objs = st.objs
            /\ tasks = st.tasks
            /\ task_queue = st.task_queue
    /\ synthesis_iteration = 0
    /\ cache = [k \in {} |-> CacheValue("", "")]
    /\ calls = NoCalls
    /\ returns = NoReturns
    /\ batch = NoBatch
    /\ NotChunking
    /\ pc = "idle"
    /\ cur = 0
    /\ outcome = "added"
    /\ n_adds = 2
    /\ added = 2
    /\ try_raised = FALSE

NextSeeded ==
    \/ CallerExecuteTasks
    \/ Dispatch
    \/ Requeue
    \/ Return
    \/ ExecuteRetrieval
    \/ ExecuteSynthesisWith({IncompleteOneSearch})
    \/ Replan

\* The orchestrator is one sequential program: while a step is possible it
\* takes one
SpecSeeded == InitSeeded /\ [][NextSeeded]_vars /\ WF_vars(NextSeeded)

-----------------------------------------------------------------------------
(* A caller that uses one orchestrator for two rounds: it adds a Retrieval   *)
(* task "r" and a task "s" that depends on it, then adds the Task object of  *)
(* "s" once more, then a second Retrieval task under the id "r"; it may call *)
(* execute_tasks between any two of these calls                              *)

RoundDependents ==
    { Task("s", "synthesis", Params("x", Missing, Missing), {"r"}),
      Task("s", "calculation", NoParams, {"r"}) }

\* The new Task object of the caller's add_task call number n_adds + 1
RoundTasks ==
    CASE n_adds = 0 -> { Task("r", "retrieval", Params("x", Missing, Missing), {}) }
      [] n_adds = 1 -> RoundDependents
      [] n_adds = 3 -> { Task("r", "retrieval", Params(Missing, "w", Missing), {}) }
      [] OTHER      -> {}

\* orchestrator.add_task(Task(...)), calls 1, 2 and 4
RoundAddTask ==
    /\ pc = "idle"
    /\ \E t \in RoundTasks :
        LET st == add_new_task(Store, t)
        IN  /\ objs' = st.objs
            /\ tasks' = st.tasks
            /\ task_queue' = st.task_queue
            /\ added' = Len(st.objs)
    /\ n_adds' = n_adds + 1
    /\ outcome' = "added"
    /\ UNCHANGED <<synthesis_iteration, cache, calls, returns, batch, chunker,
                   pc, cur, try_raised>>

\* orchestrator.add_task(s), call 3, with the Task object of call 2
RoundAddTaskAgain ==
    /\ pc = "idle"
    /\ n_adds = 2
    /\ LET st == add_task(Store, 2)
       IN  /\ tasks' = st.tasks
           /\ task_queue' = st.task_queue
    /\ added' = 2
    /\ n_adds' = n_adds + 1
    /\ outcome' = "added"
    /\ UNCHANGED <<objs, synthesis_iteration, cache, calls, returns, batch,
                   chunker, pc, cur, try_raised>>

\* In these rounds the generation collaborator reports complete
RoundApis == { ApiContent(TRUE, JObj("complete", FALSE, <<>>)) }

NextRounds ==
    \/ RoundAddTask
    \/ RoundAddTaskAgain
    \/ CallerExecuteTasks
    \/ Dispatch
    \/ Requeue
    \/ Return
    \/ ExecuteRetrieval
    \/ ExecuteSynthesisWith(RoundApis)
    \/ ExecuteNoAgent
    \/ Replan

SpecRounds == Init /\ [][NextRounds]_vars

-----------------------------------------------------------------------------
(* A chain of dependencies: a task "m" that depends on "r", a task "l" that  *)
(* depends on "m", and a task "f" that depends on nothing; "r" is a          *)
(* Retrieval task that completes, a Retrieval task without parameters, which *)
(* fails, or is not registered at all                                        *)

ChainRoots ==
    { {},
      { Task("r", "retrieval", NoParams, {}) },
      { Task("r", "retrieval", Params("x", Missing, Missing), {}) } }

ChainMiddles ==
    { Task("m", "retrieval", Params(Missing, "w", Missing), {"r"}),
      Task("m", "synthesis", Params("x", Missing, Missing), {"r"}) }

ChainLeaf == Task("l", "synthesis", Params("x", Missing, Missing), {"m"})

ChainFree ==
    { Task("f", "retrieval", Params("x", Missing, Missing), {}),
      Task("f", "synthesis", Params("x", Missing, Missing), {}) }

\* The orders in which the caller may add the tasks of S
Orders(S) ==
    { order \in [1..Cardinality(S) -> S] :
        \A i, j \in 1..Cardinality(S) : order[i] = order[j] => i = j }

\* add_task(Task(...)) for each task of the sequence
RECURSIVE AddAll(_, _)
AddAll(st, ts) ==
    IF ts = <<>> THEN st ELSE AddAll(add_new_task(st, Head(ts)), Tail(ts))

\* The state after the caller's add_task calls, in any order
InitChain ==
    /\ \E root \in ChainRoots, m \in ChainMiddles, f \in ChainFree :
        \E order \in Orders(root \cup {m, ChainLeaf, f}) :
            LET st == AddAll(EmptyStore, order)
            IN  /\ objs = st.objs
                /\ tasks = st.tasks
                /\ task_queue = st.task_queue
                /\ n_adds = Len(st.objs)
                /\ added = Len(st.objs)
    /\ synthesis_iteration = 0
    /\ cache = [k \in {} |-> CacheValue("", "")]
    /\ calls = NoCalls
    /\ returns = NoReturns
    /\ batch = NoBatch
    /\ NotChunking
    /\ pc = "idle"
    /\ cur = 0
    /\ outcome = "added"
    /\ try_raised = FALSE

NextChain ==
    \/ CallerExecuteTasks
    \/ Dispatch
    \/ Requeue
    \/ Return
    \/ ExecuteRetrieval
    \/ ExecuteSynthesisWith(RoundApis)
    \/ Replan

\* The orchestrator is one sequential program: while a step is possible it
\* takes one
SpecChain == InitChain /\ [][NextChain]_vars /\ WF_vars(NextChain)

-----------------------------------------------------------------------------
(* Seed tasks whose dependency ids are all registered and form no cycle: a   *)
(* Retrieval task "r", a Synthesis task that depends on nothing or on "r",   *)
(* and a Retrieval task "q" that depends on the Synthesis task. Every agent  *)
(* call returns; the generation collaborator reports complete, or incomplete *)
(* with one google_search additional task, as often as it likes              *)

SeedSynthesisIds == {"s", "synthesis_4"}

AcyclicSeeds ==
    { { Task("r", "retrieval", Params("x", Missing, Missing), {}),
        Task(sid, "synthesis", Params("x", Missing, Missing), deps),
        Task("q", "retrieval", Params(Missing, "w", Missing), {sid}) } :
      sid \in SeedSynthesisIds, deps \in {{}, {"r"}} }

AcyclicApis == RoundApis \cup {IncompleteOneSearch}

InitAcyclic ==
    /\ \E seeds \in AcyclicSeeds :
        \E order \in Orders(seeds) :
            LET st == AddAll(EmptyStore, order)
            IN  /\ objs = st.objs
                /\ tasks = st.tasks
                /\ task_queue = st.task_queue
                /\ n_adds = Len(st.objs)
                /\ added = Len(st.objs)
    /\ synthesis_iteration = 0
    /\ cache = [k \in {} |-> CacheValue("", "")]
    /\ calls = NoCalls
    /\ returns = NoReturns
    /\ batch = NoBatch
    /\ NotChunking
    /\ pc = "idle"
    /\ cur = 0
    /\ outcome = "added"
    /\ try_raised = FALSE

NextAcyclic ==
    \/ CallerExecuteTasks
    \/ Dispatch
    \/ Requeue
    \/ Return
    \/ ExecuteRetrieval
    \/ ExecuteSynthesisWith(AcyclicApis)
    \/ Replan

\* The orchestrator is one sequential program: while a step is possible it
\* takes one
SpecAcyclic == InitAcyclic /\ [][NextAcyclic]_vars /\ WF_vars(NextAcyclic)

-----------------------------------------------------------------------------
(* Two seed tasks with distinct ids: a Synthesis task "s" that depends on    *)
(* nothing, and a Retrieval task that completes, that has no parameters and  *)
(* fails, or that depends on "s". The id of the Retrieval task is "r" or has *)
(* the form of a generated id. Every agent call returns; the generation      *)
(* collaborator reports complete, or incomplete with one google_search       *)
(* additional task, as often as it likes                                     *)

SeedRetrievalIds == {"r", "retrieval_search_2"}

FollowUpSeeds ==
    { { Task("s", "synthesis", Params("x", Missing, Missing), {}),
        Task(rid, "retrieval", k[1], k[2]) } :
      rid \in SeedRetrievalIds,
      k \in { <<Params("x", Missing, Missing), {}>>,
              <<NoParams, {}>>,
              <<Params(Missing, "w", Missing), {"s"}>> } }

InitFollowUp ==
    /\ \E seeds \in FollowUpSeeds :
        \E order \in Orders(seeds) :
            LET st == AddAll(EmptyStore, order)
            IN  /\ objs = st.objs
                /\ tasks = st.tasks
                /\ task_queue = st.task_queue
                /\ n_adds = Len(st.objs)
                /\ added = Len(st.objs)
    /\ synthesis_iteration = 0
    /\ cache = [k \in {} |-> CacheValue("", "")]
    /\ calls = NoCalls
    /\ returns = NoReturns
    /\ batch = NoBatch
    /\ NotChunking
    /\ pc = "idle"
    /\ cur = 0
    /\ outcome = "added"
    /\ try_raised = FALSE

NextFollowUp ==
    \/ CallerExecuteTasks
    \/ Dispatch
    \/ Requeue
    \/ Return
    \/ ExecuteRetrieval
    \/ ExecuteSynthesisWith(AcyclicApis)
    \/ Replan

\* The orchestrator is one sequential program: while a step is possible it
\* takes one
SpecFollowUp == InitFollowUp /\ [][NextFollowUp]_vars /\ WF_vars(NextFollowUp)

-----------------------------------------------------------------------------
(* One RetrievalAgent called directly, in any sequence of search and         *)
(* retrieve_webpage calls; the string "x" serves as a query and as a URL     *)

AgentQueries == {"x", "y"}

AgentUrls == {"x", "w"}

\* agent.search(query)
AgentSearch ==
    /\ batch.at # "storing"
    /\ \E query \in AgentQueries, collab \in SearchOutcomes :
        LET a == search(cache, query, collab)
        IN  /\ cache' = a.cache
            /\ calls' = IF a.called
                        THEN Called(calls, "google_search_call", query)
                        ELSE calls
            /\ returns' = Returned(returns, "search", query, a.value)
    /\ UNCHANGED <<objs, tasks, task_queue, synthesis_iteration, pc, cur,
                   outcome, n_adds, added, try_raised, batch, chunker>>

\* agent.retrieve_webpage(url)
AgentRetrieveWebpage ==
    /\ batch.at # "storing"
    /\ \E url \in AgentUrls, collab \in ScrapeOutcomes :
        LET a == retrieve_webpage(cache, url, collab)
        IN  /\ cache' = a.cache
            /\ calls' = IF a.called
                        THEN Called(calls, "scrape_urls_call", url)
                        ELSE calls
            /\ returns' = Returned(returns, "retrieve_webpage", url, a.value)
    /\ UNCHANGED <<objs, tasks, task_queue, synthesis_iteration, pc, cur,
                   outcome, n_adds, added, try_raised, batch, chunker>>

NextAgent ==
    \/ AgentSearch
    \/ AgentRetrieveWebpage

SpecAgent == Init /\ [][NextAgent]_vars

-----------------------------------------------------------------------------
(* One RetrievalAgent whose retrieve_webpages is called as well. The loops   *)
(* of retrieve_webpages assign to the cache once per URL of to_fetch; each   *)
(* assignment is a step, and no other call starts before the call returns    *)

BatchUrlLists ==
    UNION { [1..n -> AgentUrls] : n \in 1..2 }

\* agent.retrieve_webpages(urls), up to the answer of the collaborator
AgentRetrieveWebpages ==
    /\ batch.at # "storing"
    /\ \E urls \in BatchUrlLists :
        LET fetch == to_fetch(cache, urls)
        IN  \E response \in BatchResponses(Len(fetch)) :
                /\ (fetch = <<>> => response.raises)
                /\ batch' = [urls |-> urls,
                             stores |-> batch_stores(fetch, response),
                             results |-> <<>>, at |-> "storing"]
    /\ UNCHANGED <<objs, tasks, task_queue, synthesis_iteration, cache, calls,
                   returns, pc, cur, outcome, n_adds, added, try_raised,
                   chunker>>

\* self.cache[url] = content, the next assignment of the loop
AgentBatchStore ==
    /\ batch.at = "storing"
    /\ batch.stores # <<>>
    /\ cache' = Put(cache, Head(batch.stores).url, Head(batch.stores).content)
    /\ batch' = [batch EXCEPT !.stores = Tail(@)]
    /\ UNCHANGED <<objs, tasks, task_queue, synthesis_iteration, calls,
                   returns, pc, cur, outcome, n_adds, added, try_raised,
                   chunker>>

\* return results
AgentBatchReturn ==
    /\ batch.at = "storing"
    /\ batch.stores = <<>>
    /\ batch' = [batch EXCEPT !.results = batch_results(cache, batch.urls),
                              !.at = "returned"]
    /\ UNCHANGED <<objs, tasks, task_queue, synthesis_iteration, cache, calls,
                   returns, pc, cur, outcome, n_adds, added, try_raised,
                   chunker>>

NextBatch ==
    \/ AgentSearch
    \/ AgentRetrieveWebpage
    \/ AgentRetrieveWebpages
    \/ AgentBatchStore
    \/ AgentBatchReturn

SpecBatch == Init /\ [][NextBatch]_vars

-----------------------------------------------------------------------------
(* chunk_tool_output called once, on a text of up to MaxLines lines of up to *)
(* MaxLineWords words, with a positive token budget                          *)

MaxLines == 3

MaxLineWords == 1

\* A short word, a short word that starts with "#", and a long word
WordKinds ==
    { Word(1, 5, FALSE), Word(1, 5, TRUE), Word(3, 600, FALSE) }

TextLines == UNION { [1..n -> WordKinds] : n \in 0..MaxLineWords }

Texts == UNION { [1..n -> TextLines] : n \in 0..MaxLines }

ChunkSizes == {1, 2, 4, 6}

InitChunker ==
    /\ objs = <<>>
    /\ tasks = [id \in {} |-> 0]
    /\ task_queue = <<>>
    /\ synthesis_iteration = 0
    /\ cache = [k \in {} |-> CacheValue("", "")]
    /\ calls = NoCalls
    /\ returns = NoReturns
    /\ batch = NoBatch
    /\ tool_output \in Texts
    /\ chunk_size \in ChunkSizes
    /\ chunked_content = <<>>
    /\ pc = "idle"
    /\ cur = 0
    /\ outcome = "none"
    /\ n_adds = 0
    /\ added = 0
    /\ try_raised = FALSE

\* aggregator.chunk_tool_output(content, chunk_size)
ChunkToolOutput ==
    /\ pc = "idle"
    /\ pc' = "chunked"
    /\ chunked_content' = chunk_tool_output(tool_output, chunk_size)
    /\ UNCHANGED <<objs, tasks, task_queue, synthesis_iteration, cache, calls,
                   returns, cur, outcome, n_adds, added, try_raised, batch,
                   tool_output, chunk_size>>

NextChunker == ChunkToolOutput

SpecChunker == InitChunker /\ [][NextChunker]_vars

-----------------------------------------------------------------------------
(* Properties *)

Handles == DOMAIN objs

OfType(type) == { o \in Handles : objs[o].task_type = type }

\* The synthesis output of a task, when its result is JSON text
IsJson(o) == objs[o].result.kind = "json"

\* An add_task call of the caller is the step that counts it
IsAddTaskStep == pc = "idle" /\ n_adds' = n_adds + 1

\* C1: a task is set in_progress only in a step before which every id in its
\* dependencies names a registered task whose status is completed
C1_StartsOnlyWhenDependenciesCompleted ==
    [][ \A o \in Handles :
          (objs[o].status # "in_progress" /\ objs'[o].status = "in_progress")
          => \A d \in objs[o].dependencies :
                /\ d \in DOMAIN tasks
                /\ objs[tasks[d]].status = "completed" ]_vars

\* C1: a task that has dependencies is being executed
C1_Witness ==
    \E o \in Handles :
        /\ objs[o].status = "in_progress"
        /\ Cardinality(objs[o].dependencies) >= 2

\* C2: an add_task call with a task whose id is already registered fails and
\* leaves the registry and the queue as they were
C2_DuplicateIdRejected ==
    [][ (IsAddTaskStep /\ objs'[added'].task_id \in DOMAIN tasks)
        => (outcome' = "raised" /\ tasks' = tasks /\ task_queue' = task_queue)
      ]_vars

\* C3: an add_task call with a task that names an unregistered dependency
\* fails at once and the task enters neither the registry nor the queue
C3_UnregisteredDependencyRejected ==
    [][ (IsAddTaskStep
           /\ \E d \in objs'[added'].dependencies : d \notin DOMAIN tasks)
        => (outcome' = "raised" /\ tasks' = tasks /\ task_queue' = task_queue)
      ]_vars

\* C4: when the try body of execute_task raised, the task is failed with an
\* error text as its result, and execute_tasks has not raised: it is at the
\* top of its loop, or it has since returned on an empty queue
C4_AgentErrorBecomesFailed ==
    try_raised =>
        /\ objs[cur].status = "failed"
        /\ objs[cur].result.kind = "error"
        /\ outcome # "raised"
        /\ pc \in {"loop", "idle"}
        /\ (pc = "idle" /\ outcome = "returned" => task_queue = <<>>)

\* C4: a task has failed on an exception and the loop is about to go on with
\* the tasks left in the queue
C4_Witness ==
    /\ try_raised
    /\ pc = "loop"
    /\ task_queue # <<>>
    /\ objs[cur].result = ErrorText("KeyError")

\* The result of o is JSON that is not an object or has no status field
Malformed(o) ==
    /\ IsJson(o)
    /\ (~objs[o].result.value.isdict \/ objs[o].result.value.status = Missing)

\* C5: a synthesis task whose result does not parse as the expected structure
\* is completed only until the replanning step has looked at it, and
\* execute_tasks does not raise
C5_MalformedSynthesisFails ==
    /\ \A o \in OfType("synthesis") :
          (objs[o].status = "completed" /\ Malformed(o))
          => (pc = "replan" /\ cur = o)
    /\ outcome # "raised"

\* C6: the status of a task that is completed or failed never changes again,
\* and no task goes back to pending
C6_StatusIsTerminal ==
    [][ \A o \in Handles :
          /\ objs[o].status \in {"completed", "failed"}
                => objs'[o].status = objs[o].status
          /\ objs[o].status # "pending" => objs'[o].status # "pending" ]_vars

\* C7: a task whose status has left pending is never set in_progress again
C7_DispatchedAtMostOnce ==
    [][ \A o \in Handles :
          (objs[o].status # "pending" /\ objs'[o].status = "in_progress")
          => objs[o].status = "in_progress" ]_vars

\* A synthesis task becomes completed in this step
SynthesisCompletes ==
    \E o \in OfType("synthesis") :
        objs[o].status # "completed" /\ objs'[o].status = "completed"

\* Once the counter is at 8 the replanning step adds no task
NoTaskAddedAtCap ==
    (pc = "replan" /\ synthesis_iteration >= 8)
    => (Len(objs') = Len(objs) /\ tasks' = tasks /\ task_queue' = task_queue)

\* C8 as stated: the counter changes exactly when a synthesis task completes,
\* then by 1, and at 8 the replanning step adds no task
C8_CounterPerCompletion ==
    [][ /\ synthesis_iteration' # synthesis_iteration
            => (SynthesisCompletes /\ synthesis_iteration' = synthesis_iteration + 1)
        /\ SynthesisCompletes => synthesis_iteration' = synthesis_iteration + 1
        /\ NoTaskAddedAtCap ]_vars

\* A synthesis task is run by execute_task in this step
SynthesisExecuted ==
    /\ pc = "exec"
    /\ pc' # "exec"
    /\ objs[cur].task_type = "synthesis"

\* C8 amended: the counter changes exactly when execute_task runs a synthesis
\* task, whether the task ends completed or failed, then by 1, and at 8 the
\* replanning step adds no task
C8_CounterPerExecution ==
    [][ /\ synthesis_iteration' # synthesis_iteration
            => (SynthesisExecuted /\ synthesis_iteration' = synthesis_iteration + 1)
        /\ SynthesisExecuted => synthesis_iteration' = synthesis_iteration + 1
        /\ NoTaskAddedAtCap ]_vars

\* C8: the eighth synthesis reported incomplete and the replanning step has
\* added nothing
C8_Witness ==
    /\ pc = "loop"
    /\ synthesis_iteration = 8
    /\ objs[cur].task_type = "synthesis"
    /\ objs[cur].status = "completed"
    /\ objs[cur].result.value.status = "incomplete"
    /\ task_queue = <<>>

\* C9: in the seeded run there are never more than 8 synthesis tasks, the run
\* returns, and when it has returned exactly 8 synthesis tasks are registered,
\* all of them completed, and the queue is empty
C9_HaltsAfterEighthSynthesis ==
    /\ [](Cardinality(OfType("synthesis")) <= 8)
    /\ [](outcome = "returned" =>
            /\ Cardinality(OfType("synthesis")) = 8
            /\ Cardinality({ id \in DOMAIN tasks :
                               objs[tasks[id]].task_type = "synthesis" }) = 8
            /\ \A o \in OfType("synthesis") : objs[o].status = "completed"
            /\ task_queue = <<>>)
    /\ <>(outcome = "returned")

\* C9: the seeded run has returned after its eighth synthesis
C9_Witness ==
    /\ outcome = "returned"
    /\ synthesis_iteration = 8
    /\ Cardinality(OfType("synthesis")) = 8

\* The task the replanning step has just enqueued last
Enqueued == objs'[Len(objs')]

\* The ids of the Retrieval tasks in the registry when the follow-up synthesis
\* task is built: the registry after the step, but for the id of that task
\* itself, which names what it named before the step
RetrievalIdsAtEnqueue ==
    { id \in DOMAIN tasks' \ {Enqueued.task_id} :
        objs'[tasks'[id]].task_type = "retrieval" }
    \cup { id \in DOMAIN tasks \cap {Enqueued.task_id} :
             objs[tasks[id]].task_type = "retrieval" }

\* C10: the follow-up synthesis task that replanning enqueues depends on
\* exactly the ids of the Retrieval tasks in the registry at that moment
C10_FollowUpDependsOnAllRetrievals ==
    [][ (pc = "replan" /\ Len(objs') > Len(objs))
        => /\ Enqueued.task_type = "synthesis"
           /\ Enqueued.dependencies = RetrievalIdsAtEnqueue ]_vars

\* C10: a follow-up synthesis task waits on retrieval tasks of an earlier
\* replanning step, by now completed, and on some just spawned
C10_Witness ==
    \E o \in OfType("synthesis") :
        /\ objs[o].status = "pending"
        /\ \E d \in objs[o].dependencies :
              d \in DOMAIN tasks /\ objs[tasks[d]].status = "completed"
        /\ \E d \in objs[o].dependencies :
              d \in DOMAIN tasks /\ objs[tasks[d]].status = "pending"
        /\ \E d \in DOMAIN tasks : d \notin objs[o].dependencies

\* The parameters of the Retrieval tasks that one entry of additional_tasks
\* asks for: one per google_search entry, one per URL of a scrape_urls entry,
\* none for any other entry
WantedOfEntry(e) ==
    IF e.isdict /\ e.tool = "google_search" /\ e.has_q
    THEN << Params(e.q, Missing, Missing) >>
    ELSE IF e.isdict /\ e.tool = "scrape_urls" /\ e.has_urls
    THEN [i \in 1..Len(e.urls) |-> Params(Missing, e.urls[i], Missing)]
    ELSE << >>

RECURSIVE Wanted(_)
Wanted(entries) ==
    IF entries = << >> THEN << >>
    ELSE WantedOfEntry(Head(entries)) \o Wanted(Tail(entries))

\* The replanning step looks at a completed synthesis whose result reports
\* incomplete while the counter is below 8
ReplansIncomplete ==
    /\ pc = "replan"
    /\ IsJson(cur)
    /\ objs[cur].result.value.isdict
    /\ objs[cur].result.value.status = "incomplete"
    /\ synthesis_iteration < 8

\* Task object o is new, pending and in the registry under its own id
NewPendingRegistered(o) ==
    /\ objs'[o].status = "pending"
    /\ objs'[o].result = None
    /\ objs'[o].task_id \in DOMAIN tasks'
    /\ tasks'[objs'[o].task_id] = o

\* C11: replanning on an incomplete result below the cap creates one pending
\* Retrieval task per google_search entry and per URL of a scrape_urls entry,
\* in the order of the entries, and one Synthesis task after them; every one
\* of them is in the registry, they are appended to the queue in that order,
\* and entries of any other tool add nothing
C11_SpawnsOnePerEntry ==
    [][ ReplansIncomplete =>
          LET out  == objs[cur].result.value
              want == IF out.has_additional_tasks
                      THEN Wanted(out.additional_tasks) ELSE << >>
              n    == Len(want)
              base == Len(objs)
          IN  /\ Len(objs') = base + n + 1
              /\ \A i \in 1..n :
                    /\ objs'[base + i].task_type = "retrieval"
                    /\ objs'[base + i].params = want[i]
                    /\ NewPendingRegistered(base + i)
              /\ objs'[base + n + 1].task_type = "synthesis"
              /\ NewPendingRegistered(base + n + 1)
              /\ task_queue' = task_queue \o [i \in 1..(n + 1) |-> base + i]
      ]_vars

\* The replanning step looks at a completed synthesis whose result reports
\* complete
ReplansComplete ==
    /\ pc = "replan"
    /\ IsJson(cur)
    /\ objs[cur].result.value.isdict
    /\ objs[cur].result.value.status = "complete"

\* C12: from the pop of a Synthesis task to the end of the replanning step on
\* its complete result the registry does not change and the queue only loses
\* the popped task: the pop takes the head, running the task adds nothing,
\* and the replanning step adds nothing, whatever additional_tasks the result
\* carries and whatever the counter is
C12_CompleteAddsNothing ==
    [][ /\ (pc = "loop" /\ pc' = "exec")
            => (tasks' = tasks /\ objs'[cur'].task_id = objs[cur'].task_id
                /\ Len(objs') = Len(objs) /\ task_queue = <<cur'>> \o task_queue')
        /\ (pc = "exec" /\ objs[cur].task_type = "synthesis")
            => (tasks' = tasks /\ task_queue' = task_queue
                /\ Len(objs') = Len(objs))
        /\ ReplansComplete
            => (tasks' = tasks /\ task_queue' = task_queue /\ objs' = objs
                /\ pc' = "loop") ]_vars

\* C12: below the cap, the replanning step has passed over a complete result
\* that carries additional tasks, and other tasks are still queued
C12_Witness ==
    /\ pc = "loop"
    /\ cur # 0
    /\ objs[cur].task_type = "synthesis"
    /\ objs[cur].status = "completed"
    /\ objs[cur].result.value.status = "complete"
    /\ objs[cur].result.value.additional_tasks = RichTasks
    /\ synthesis_iteration < MaxIterations
    /\ task_queue # <<>>
    /\ Len(objs) = Cardinality(DOMAIN tasks)

\* The task at the head of the queue has a dependency that is not completed
HeadIsBlocked ==
    /\ pc = "loop"
    /\ task_queue # <<>>
    /\ \E d \in objs[Head(task_queue)].dependencies :
          d \notin DOMAIN tasks \/ objs[tasks[d]].status # "completed"

\* C13: when the popped task has a dependency that is not completed, the step
\* puts it at the tail of the queue behind the other tasks in their order, the
\* task is pending with no result before and after, and no task is executed:
\* the loop stays at its top and no agent state changes
C13_BlockedTaskIsRequeued ==
    [][ HeadIsBlocked =>
          /\ task_queue' = Append(Tail(task_queue), Head(task_queue))
          /\ objs[Head(task_queue)].status = "pending"
          /\ objs[Head(task_queue)].result = None
          /\ objs' = objs
          /\ pc' = "loop"
          /\ cur' = cur
          /\ tasks' = tasks
          /\ cache' = cache
          /\ synthesis_iteration' = synthesis_iteration ]_vars

\* get_completed_tasks(): the registered tasks whose status is completed
get_completed_tasks ==
    { o \in { tasks[id] : id \in DOMAIN tasks } : objs[o].status = "completed" }

\* C14: execute_tasks returns only from an empty queue, which the return
\* leaves empty; whenever it has returned every registered task is completed
\* or failed; and when no task is registered the only step of execute_tasks
\* is the return, which runs no agent and leaves the completed set empty
C14_ReturnsOnEmptyQueueAllDone ==
    /\ [][ (outcome' = "returned" /\ outcome # "returned")
           => (task_queue = <<>> /\ task_queue' = <<>>) ]_vars
    /\ [](outcome = "returned" =>
            /\ task_queue = <<>>
            /\ \A id \in DOMAIN tasks :
                  objs[tasks[id]].status \in {"completed", "failed"})
    /\ [][ (pc = "loop" /\ DOMAIN tasks = {})
           => /\ pc' = "idle"
              /\ outcome' = "returned"
              /\ objs' = objs
              /\ cache' = cache
              /\ synthesis_iteration' = synthesis_iteration
              /\ get_completed_tasks' = {} ]_vars

\* C14: execute_tasks has returned from a run in which tasks were spawned,
\* some tasks completed and some failed
C14_Witness ==
    /\ outcome = "returned"
    /\ Cardinality(DOMAIN tasks) >= 3
    /\ \E id \in DOMAIN tasks : objs[tasks[id]].status = "completed"
    /\ \E id \in DOMAIN tasks : objs[tasks[id]].status = "failed"

\* The tasks that depend, directly or through other tasks, on a failed task
\* or on an id that is not registered: those at distance n at most
RECURSIVE DoomedWithin(_)
DoomedWithin(n) ==
    IF n = 0 THEN {}
    ELSE LET below == DoomedWithin(n - 1)
         IN  { o \in Handles :
                 \E d \in objs[o].dependencies :
                    \/ d \notin DOMAIN tasks
                    \/ objs[tasks[d]].status = "failed"
                    \/ tasks[d] \in below }

Doomed == DoomedWithin(Len(objs))

InQueue(o) == \E i \in DOMAIN task_queue : task_queue[i] = o

DependsOnFailedRetrieval(o) ==
    /\ o \in OfType("synthesis")
    /\ \E d \in objs[o].dependencies :
          /\ d \in DOMAIN tasks
          /\ objs[tasks[d]].task_type = "retrieval"
          /\ objs[tasks[d]].status = "failed"

\* C16: once a Synthesis task depends on a failed Retrieval task, such a
\* Synthesis task is eventually completed with a result that is well-formed
\* JSON with a status
C16_SynthesisRunsOnFailedRetrieval ==
    (\E o \in Handles : DependsOnFailedRetrieval(o))
    ~> (\E o \in Handles :
           /\ DependsOnFailedRetrieval(o)
           /\ objs[o].status = "completed"
           /\ IsJson(o)
           /\ objs[o].result.value.isdict
           /\ objs[o].result.value.status \in {"complete", "incomplete"})

\* C17: from seed tasks whose dependency ids are all registered and acyclic,
\* with every agent call returning, execute_tasks eventually returns unless
\* some task fails
C17_ExecuteTasksReturns ==
    <>(outcome = "returned" \/ \E o \in Handles : objs[o].status = "failed")

\* The replanning step ends a branch on an incomplete result: it looks at a
\* completed synthesis whose result reports incomplete and adds no task
BranchEndsIncomplete ==
    /\ pc = "replan"
    /\ pc' = "loop"
    /\ IsJson(cur)
    /\ objs[cur].result.value.isdict
    /\ objs[cur].result.value.status = "incomplete"
    /\ Len(objs') = Len(objs)

\* The replanning step ends a branch on a complete result
BranchEndsComplete ==
    /\ ReplansComplete
    /\ pc' = "loop"
    /\ Len(objs') = Len(objs)

\* A result reports complete only where the replanning step ended the branch
\* on it: a completed Synthesis task with result status complete has no
\* follow-up
CompleteMeansConverged ==
    (pc = "replan" /\ pc' = "loop" /\ IsJson(cur)
       /\ objs[cur].result.value.isdict
       /\ objs[cur].result.value.status = "complete")
    => BranchEndsComplete

\* The error text of the schema check of the replanning step
SchemaErrorText == ErrorText("Invalid synthesis output format")

ValidatesUnfinished ==
    /\ pc = "exec"
    /\ pc' # "exec"
    /\ objs[cur].task_type = "validation"
    /\ objs[cur].params.synthesis_task_id \in DOMAIN tasks
    /\ objs[tasks[objs[cur].params.synthesis_task_id]].status # "completed"

\* The errors json.loads raises on a result that is unset or is an error text;
\* an exception of validate itself would read ErrorText("Exception")
ParseErrors == { ErrorText("TypeError"), ErrorText("JSONDecodeError") }

\* C19: when execute_task runs a Synthesis task every dependency is
\* registered and each result handed to synthesize is the result of a
\* dependency that is completed, never an unset result or an error text; and
\* a Validation task that names a task that is not completed ends failed on
\* the parse of that task's result, before validate is called
C19_AgentsSeeOnlyCompletedResults ==
    /\ []((pc = "exec" /\ objs[cur].task_type = "synthesis") =>
            /\ \A d \in objs[cur].dependencies : d \in DOMAIN tasks
            /\ \A x \in completed_results(cur) :
                  /\ x.kind \notin {"none", "error"}
                  /\ \E d \in objs[cur].dependencies :
                        /\ objs[tasks[d]].status = "completed"
                        /\ objs[tasks[d]].result = x)
    /\ [][ ValidatesUnfinished =>
             /\ objs'[cur].status = "failed"
             /\ objs'[cur].result \in ParseErrors ]_vars

\* C19: a Validation task has failed on the error text of a failed Synthesis
\* task
C19_Witness ==
    /\ pc = "loop"
    /\ cur # 0
    /\ objs[cur].task_type = "validation"
    /\ objs[cur].status = "failed"
    /\ objs[cur].result = ErrorText("JSONDecodeError")
    /\ objs[cur].params.synthesis_task_id \in DOMAIN tasks
    /\ objs[tasks[objs[cur].params.synthesis_task_id]].status = "failed"

\* C20: no collaborator is invoked more than once with the same argument, and
\* every later call of search or retrieve_webpage with an argument has
\* returned what the first call with that argument returned
C20_CollaboratorInvokedOncePerKey ==
    /\ \A k \in DOMAIN calls : calls[k] <= 1
    /\ \A m \in DOMAIN returns : returns[m].later \subseteq {returns[m].first}

\* C20: a URL whose scrape failed and a query whose search failed have both
\* been asked for again
C20_Witness ==
    /\ <<"retrieve_webpage", "w">> \in DOMAIN returns
    /\ returns[<<"retrieve_webpage", "w">>].first = CacheValue("error_retrieving", "w")
    /\ returns[<<"retrieve_webpage", "w">>].later # {}
    /\ <<"search", "y">> \in DOMAIN returns
    /\ returns[<<"search", "y">>].first = CacheValue("error_result", "y")
    /\ returns[<<"search", "y">>].later # {}

\* C21: over any sequence of search, retrieve_webpage and retrieve_webpages
\* calls, a step never removes a key from the cache and never changes the
\* value stored under a key
C21_CacheAppendOnly ==
    [][ \A k \in DOMAIN cache : k \in DOMAIN cache' /\ cache'[k] = cache[k] ]_vars

\* execute_task runs a Retrieval task that has a query or a url parameter
RunsRetrievalWithParameter ==
    /\ pc = "exec"
    /\ pc' # "exec"
    /\ objs[cur].task_type = "retrieval"
    /\ (objs[cur].params.query # Missing \/ objs[cur].params.url # Missing)

\* C22: running a Retrieval task that has a query or a url parameter leaves
\* it completed with the search or scrape record as its result, whatever the
\* collaborator did, and execute_tasks goes on; and a Retrieval task is
\* failed only if it has neither parameter, with the ValueError as result
C22_RetrievalWithParameterCompletes ==
    /\ [][ RunsRetrievalWithParameter =>
             /\ objs'[cur].status = "completed"
             /\ objs'[cur].result.kind \in {"search", "scrape"}
             /\ pc' = "loop" ]_vars
    /\ [](\A o \in OfType("retrieval") :
             objs[o].status = "failed"
             => /\ objs[o].params.query = Missing
                /\ objs[o].params.url = Missing
                /\ objs[o].result = ErrorText("ValueError"))

\* C22: a search and a scrape whose collaborators failed have both left
\* their tasks completed, with the error record and the placeholder
C22_Witness ==
    /\ \E o \in OfType("retrieval") :
          /\ objs[o].status = "completed"
          /\ objs[o].result.kind = "search"
          /\ objs[o].result.results.text = "error_result"
    /\ \E o \in OfType("retrieval") :
          /\ objs[o].status = "completed"
          /\ objs[o].result.kind = "scrape"
          /\ objs[o].result.content.text = "error_retrieving"

\* C23: the result of every Synthesis task that execute_task has completed,
\* which is the value synthesize returned, is JSON text of an object whose
\* status is complete or incomplete; execute_task never finds synthesize
\* raising, so a Synthesis task with a query is never failed
C23_SynthesizeAlwaysWellFormed ==
    \A o \in OfType("synthesis") :
        /\ objs[o].status = "completed"
             => /\ IsJson(o)
                /\ objs[o].result.value.isdict
                /\ objs[o].result.value.status \in {"complete", "incomplete"}
        /\ objs[o].status = "failed" => objs[o].params.query = Missing

\* The lines of a chunk
RECURSIVE ChunkLines(_)
ChunkLines(sections) ==
    IF sections = <<>> THEN <<>>
    ELSE Head(sections) \o ChunkLines(Tail(sections))

\* The token count of the text of a chunk
ChunkTokens(chunk) == encode_len(ChunkLines(chunk.sections))

\* C24: every chunk that chunk_tool_output returns, packed from whole
\* segments or made of the words of an oversized segment, has a token count
\* of at most the budget
C24_ChunksWithinBudget ==
    pc = "chunked" =>
        \A i \in DOMAIN chunked_content :
            ChunkTokens(chunked_content[i].chunk) <= chunk_size

\* The words of the chunks, markers stripped, in output order
RECURSIVE OutputWords(_)
OutputWords(output) ==
    IF output = <<>> THEN <<>>
    ELSE SectionWords(ChunkLines(Head(output).chunk.sections))
         \o OutputWords(Tail(output))

\* C25: the words of the chunks in output order are the words of the text
\* in their order, none lost or duplicated, and the markers are numbered
\* 1..n in output order
C25_ChunksReproduceText ==
    pc = "chunked" =>
        /\ OutputWords(chunked_content) = SectionWords(tool_output)
        /\ \A i \in DOMAIN chunked_content : chunked_content[i].index = i

\* The running token count of a packed chunk: the sum over its sections
RECURSIVE RunningTokens(_)
RunningTokens(sections) ==
    IF sections = <<>> THEN 0
    ELSE encode_len(Head(sections)) + RunningTokens(Tail(sections))

\* The chunks packed from whole sections, in output order
PackedChunks ==
    SelectSeq([i \in DOMAIN chunked_content |-> chunked_content[i].chunk],
              LAMBDA c : c.packed)

\* A packed chunk was closed only because the section that starts the next
\* packed chunk would have pushed its running count over the budget
ClosedOnlyWhenFull ==
    \A j \in 1..(Len(PackedChunks) - 1) :
        RunningTokens(PackedChunks[j].sections)
          + encode_len(Head(PackedChunks[j + 1].sections)) > chunk_size

\* No section of the text is oversized and the token counts of the sections
\* sum to at most the budget
AllFitsBudget ==
    LET sections == Segment(tool_output, <<>>, <<>>)
    IN  /\ \A k \in DOMAIN sections : encode_len(sections[k]) <= chunk_size
        /\ RunningTokens(sections) <= chunk_size

\* Exactly one chunk, which holds every line of the text in order
OneChunkOfAllLines ==
    /\ Len(chunked_content) = 1
    /\ ChunkLines(chunked_content[1].chunk.sections) = tool_output

\* C26 as stated: packing is greedy, and a text whose sections all fit and
\* sum to at most the budget comes back as exactly one chunk of all its lines
C26_GreedyOneChunk ==
    pc = "chunked" =>
        /\ ClosedOnlyWhenFull
        /\ AllFitsBudget => OneChunkOfAllLines

\* C26 amended: packing is greedy, and a text of at least one line whose
\* sections all fit and sum to at most the budget comes back as exactly one
\* chunk of all its lines; a text without lines comes back as no chunk
C26_GreedyOneChunkOfNonEmptyText ==
    pc = "chunked" =>
        /\ ClosedOnlyWhenFull
        /\ (AllFitsBudget /\ tool_output # <<>>) => OneChunkOfAllLines
        /\ tool_output = <<>> => chunked_content = <<>>

\* C26: a text of three sections whose token counts sum to exactly the budget
\* has come back as one chunk
C26_Witness ==
    /\ pc = "chunked"
    /\ Len(Segment(tool_output, <<>>, <<>>)) = 3
    /\ RunningTokens(Segment(tool_output, <<>>, <<>>)) = chunk_size
    /\ Len(chunked_content) = 1

\* C27: a replanning step replaces no registered task, and every task it
\* creates gets an id of its own: the registry grows by one id per new task
C27_GeneratedIdsAreFresh ==
    [][ pc = "replan" =>
          /\ \A id \in DOMAIN tasks :
                id \in DOMAIN tasks' /\ tasks'[id] = tasks[id]
          /\ Cardinality(DOMAIN tasks')
               = Cardinality(DOMAIN tasks) + Len(objs') - Len(objs) ]_vars

\* The registered Task objects
Registered == { tasks[id] : id \in DOMAIN tasks }

\* What search stores and returns: the collaborator's records or the error
\* record
SearchTexts == {"results", "error_result"}

\* What retrieve_webpage stores and returns: the markdown or a placeholder
ScrapeTexts ==
    {"markdown", "no_data_found", "no_content_retrieved", "error_retrieving"}

\* C28: every value that search(q) has returned is the search collaborator's
\* records or error record for q, and every value that retrieve_webpage(u)
\* has returned is the text or placeholder of the scrape of u
C28_EachMethodReturnsItsOwn ==
    \A m \in DOMAIN returns :
        \A v \in {returns[m].first} \cup returns[m].later :
            /\ v.of = m[2]
            /\ m[1] = "search" => v.text \in SearchTexts
            /\ m[1] = "retrieve_webpage" => v.text \in ScrapeTexts

\* C29: at the top of the loop of execute_tasks the queue holds exactly the
\* registered tasks whose status is pending, each exactly once
C29_QueueIsThePendingTasks ==
    pc = "loop" =>
        /\ \A i, j \in DOMAIN task_queue :
              task_queue[i] = task_queue[j] => i = j
        /\ { task_queue[i] : i \in DOMAIN task_queue }
             = { o \in Registered : objs[o].status = "pending" }

\* The Task objects that replanning may create: those after the two seeds
SpawnedHandles == 3..(2 + 2 * MaxIterations)

\* C30: every Synthesis task that replanning enqueues is eventually executed
C30_FollowUpSynthesisRuns ==
    \A h \in SpawnedHandles :
        (h \in Handles /\ objs[h].task_type = "synthesis")
        ~> (h \in Handles /\ objs[h].status \in {"completed", "failed"})

====
